---------------------------- MODULE Spec2Model ----------------------------
(***************************************************************************)
(* Model of the server-statistics monitor of src/main.go: the poll loop of *)
(* main, fetchAndParseStats (status check, body split, positional field    *)
(* conversion) and checkMetrics (the four threshold rules).                *)
(*                                                                         *)
(* Strings are sequences of one-character strings.  Numbers read from the  *)
(* wire are converted digit by digit.  A float64 is kept as an exact       *)
(* decimal fraction (or an infinity, or NaN): every value the model draws  *)
(* has at most four significant digits, far below the 2^53 at which        *)
(* float64 rounding could change the outcome of a comparison, and every    *)
(* integer is far below 2^63, so strconv's range errors cannot occur.      *)
(***************************************************************************)
EXTENDS Integers, Sequences, FiniteSets, TLC

VARIABLES
    pc,                 \* position of main: "fetch", "handle", "sleep" (and the
                        \* positions of the two function-level specifications)
    consecutiveErrors,  \* main.go:38
    resp,               \* what the server answered to client.Get in this cycle
    res,                \* (stats, err) returned by fetchAndParseStats, main.go:47
    stdout,             \* lines written to standard output in this cycle
    stderr,             \* lines written to standard error in this cycle
    checkedAt,          \* value of consecutiveErrors when checkMetrics was called
                        \* in this cycle, -1 when it was not called
    sleepFor,           \* argument of the last time.Sleep, 0 before the first
    fields,             \* the fields the server joined into resp.body
    hist,               \* summaries of the last HistWindow finished cycles
    dropped             \* whether hist has lost its oldest cycles

vars == <<pc, consecutiveErrors, resp, res, stdout, stderr, checkedAt,
          sleepFor, fields, hist, dropped>>

-----------------------------------------------------------------------------
(* Program constants, main.go:14-25.  The three ratio thresholds are kept   *)
(* in hundredths.                                                           *)
pollInterval == 10
maxConsecutiveErrors == 3
loadAvgThreshold == 30
memUsageThreshold == 80
diskUsageThreshold == 90
netUsageThreshold == 90
StatusOK == 200
NumParts == 7
MiB == 1048576

(* Bounds of the model. *)
MaxErrors == 5      \* consecutive failures the environment produces at most
MaxTotal == 10      \* the positive "total" value of the records checkMetrics is given

HistWindow == MaxErrors + 1

-----------------------------------------------------------------------------
(* Characters and strings.                                                  *)

DigitChars == <<"0", "1", "2", "3", "4", "5", "6", "7", "8", "9">>

\* The characters the modelled inputs are written in.  It has no 'e', 'x',
\* 'p' or '_': exponents, hexadecimal floats and digit separators, which
\* strconv.ParseFloat also accepts, cannot be written.
Alphabet ==
    {DigitChars[i] : i \in 1..10}
      \cup {"+", "-", ".", ",", " ", "\t", "\n", "\r"}
      \cup {"a", "b", "c", "i", "n", "f", "t", "y", "I", "N", "A", "F"}

IsDigit(c) == \E i \in 1..10 : DigitChars[i] = c

DigitVal(c) == (CHOOSE i \in 1..10 : DigitChars[i] = c) - 1

\* unicode.IsSpace restricted to Alphabet.
IsSpace(c) == c \in {" ", "\t", "\n", "\r"}

Lower(c) ==
    CASE c = "I" -> "i"
      [] c = "N" -> "n"
      [] c = "A" -> "a"
      [] c = "F" -> "f"
      [] OTHER -> c

LowerStr(s) == [i \in 1..Len(s) |-> Lower(s[i])]

RECURSIVE TrimLeft(_)
TrimLeft(s) ==
    IF s # <<>> /\ IsSpace(Head(s)) THEN TrimLeft(Tail(s)) ELSE s

RECURSIVE TrimRight(_)
TrimRight(s) ==
    IF s # <<>> /\ IsSpace(s[Len(s)])
    THEN TrimRight(SubSeq(s, 1, Len(s) - 1))
    ELSE s

\* strings.TrimSpace
TrimSpace(s) == TrimRight(TrimLeft(s))

\* strings.Split(s, ","): the pieces between the commas; one (empty) piece
\* for the empty string.
RECURSIVE SplitFrom(_, _, _)
SplitFrom(s, i, cur) ==
    IF i > Len(s) THEN <<cur>>
    ELSE IF s[i] = "," THEN <<cur>> \o SplitFrom(s, i + 1, <<>>)
    ELSE SplitFrom(s, i + 1, Append(cur, s[i]))

Split(s) == SplitFrom(s, 1, <<>>)

RECURSIVE Join(_)
Join(parts) ==
    IF parts = <<>> THEN <<>>
    ELSE IF Len(parts) = 1 THEN parts[1]
    ELSE parts[1] \o <<",">> \o Join(Tail(parts))

-----------------------------------------------------------------------------
(* strconv.ParseInt(s, 10, 64) and strconv.ParseFloat(s, 64).               *)

\* Value of a sequence of decimal digits, most significant first.
RECURSIVE DigitsValue(_, _)
DigitsValue(s, acc) ==
    IF s = <<>> THEN acc ELSE DigitsValue(Tail(s), 10 * acc + DigitVal(Head(s)))

AllDigits(s) == \A i \in 1..Len(s) : IsDigit(s[i])

\* ParseInt: an optional sign, then one or more decimal digits.
ParseInt(s) ==
    LET signed == s # <<>> /\ Head(s) \in {"+", "-"}
        digits == IF signed THEN Tail(s) ELSE s
    IN  IF digits = <<>> \/ ~AllDigits(digits)
        THEN [ok |-> FALSE, val |-> 0]
        ELSE [ok |-> TRUE,
              val |-> IF signed /\ Head(s) = "-"
                      THEN 0 - DigitsValue(digits, 0)
                      ELSE DigitsValue(digits, 0)]

\* A float64: cls "fin" is (-1)^neg * num / den with den a power of ten and
\* no trailing zero in the fraction; cls "inf" is the infinity of that sign;
\* cls "nan" is NaN.
Fin(neg, num, den) == [cls |-> "fin", neg |-> neg, num |-> num, den |-> den]
Inf(neg) == [cls |-> "inf", neg |-> neg, num |-> 0, den |-> 1]
NaN == [cls |-> "nan", neg |-> FALSE, num |-> 0, den |-> 1]

RECURSIVE Reduce(_, _)
Reduce(num, den) ==
    IF den > 1 /\ num % 10 = 0 THEN Reduce(num \div 10, den \div 10)
    ELSE <<num, den>>

RECURSIVE Pow10(_)
Pow10(n) == IF n = 0 THEN 1 ELSE 10 * Pow10(n - 1)

\* strconv's special(): "inf" and "infinity" with an optional sign, "nan"
\* without one, letters of either case.
Special(s) ==
    LET signed == s # <<>> /\ Head(s) \in {"+", "-"}
        rest == LowerStr(IF signed THEN Tail(s) ELSE s)
    IN  IF rest \in {<<"i", "n", "f">>, <<"i", "n", "f", "i", "n", "i", "t", "y">>}
        THEN [ok |-> TRUE, val |-> Inf(signed /\ Head(s) = "-")]
        ELSE IF ~signed /\ rest = <<"n", "a", "n">>
        THEN [ok |-> TRUE, val |-> NaN]
        ELSE [ok |-> FALSE, val |-> NaN]

\* strconv's readFloat for a decimal mantissa: an optional sign, digits with
\* at most one '.', at least one digit; the whole string must be consumed.
ReadFloat(s) ==
    LET signed == s # <<>> /\ Head(s) \in {"+", "-"}
        body == IF signed THEN Tail(s) ELSE s
        dots == {i \in 1..Len(body) : body[i] = "."}
        wellFormed ==
            /\ \A i \in 1..Len(body) : IsDigit(body[i]) \/ body[i] = "."
            /\ Cardinality(dots) <= 1
            /\ \E i \in 1..Len(body) : IsDigit(body[i])
        dot == IF dots = {} THEN Len(body) + 1 ELSE CHOOSE i \in dots : TRUE
        int == SubSeq(body, 1, dot - 1)
        frac == SubSeq(body, dot + 1, Len(body))
        nd == Reduce(DigitsValue(int \o frac, 0), Pow10(Len(frac)))
    IN  IF wellFormed
        THEN [ok |-> TRUE, val |-> Fin(signed /\ Head(s) = "-", nd[1], nd[2])]
        ELSE [ok |-> FALSE, val |-> NaN]

ParseFloat(s) ==
    IF Special(s).ok THEN Special(s) ELSE ReadFloat(s)

\* Variant of parseInt that forgets to trim the field.
parseIntUntrimmed(s) == ParseInt(s)

\* The closures parseFloat and parseInt of fetchAndParseStats.
parseFloat(s) == ParseFloat(TrimSpace(s))
parseInt(s) == ParseInt(TrimSpace(s))


-----------------------------------------------------------------------------
(* fetchAndParseStats, main.go:64-119.                                      *)

\* The ServerStats struct, main.go:27-35.
ServerStats(l, tm, um, td, ud, tn, un) ==
    [LoadAvg |-> l, TotalMem |-> tm, UsedMem |-> um, TotalDisk |-> td,
     UsedDisk |-> ud, TotalNet |-> tn, UsedNet |-> un]

ZeroStats == ServerStats(Fin(FALSE, 0, 1), 0, 0, 0, 0, 0, 0)

\* A *ServerStats: nil, or a pointer to the struct v.
NilStats == [nil |-> TRUE, v |-> ZeroStats]
PtrTo(st) == [nil |-> FALSE, v |-> st]

\* An error value: nil, or one of the five errors fetchAndParseStats makes.
\* code is the status of a non-200 answer or the number of parts of a
\* malformed body; field is the field name a conversion error carries.
NilErr == [nil |-> TRUE, kind |-> "none", code |-> 0, field |-> ""]
Err(kind, code, field) == [nil |-> FALSE, kind |-> kind, code |-> code, field |-> field]

\* The names the conversion errors carry, by position (main.go:97-115).
FieldNames ==
    <<"Load Average", "Total Memory", "Used Memory", "Total Disk",
      "Used Disk", "Total Network", "Used Network">>

\* What fetchAndParseStats returns; tried is the number of conversions it made.
Failure(e, tried) == [stats |-> NilStats, err |-> e, tried |-> tried]
ParseFailure(i) == Failure(Err("parse", 0, FieldNames[i]), i)

\* Variant of ParseParts that converts every field before it looks at the
\* errors, and reports the last one.
ParsePartsLastError(parts) ==
    LET conv == [i \in 1..7 |-> IF i = 1 THEN parseFloat(parts[i]).ok
                                         ELSE parseInt(parts[i]).ok]
        bad == {i \in 1..7 : ~conv[i]}
    IN  IF bad = {}
        THEN [stats |-> PtrTo(ServerStats(parseFloat(parts[1]).val,
                                          parseInt(parts[2]).val,
                                          parseInt(parts[3]).val,
                                          parseInt(parts[4]).val,
                                          parseInt(parts[5]).val,
                                          parseInt(parts[6]).val,
                                          parseInt(parts[7]).val)),
              err |-> NilErr, tried |-> 7]
        ELSE Failure(Err("parse", 0,
                         FieldNames[CHOOSE i \in bad : \A j \in bad : j <= i]), 7)

\* main.go:94-118: the seven conversions, in order, each returning at once
\* when it fails.
ParseParts(parts) ==
    LET f1 == parseFloat(parts[1]) IN
    IF ~f1.ok THEN ParseFailure(1) ELSE
    LET f2 == parseInt(parts[2]) IN
    IF ~f2.ok THEN ParseFailure(2) ELSE
    LET f3 == parseInt(parts[3]) IN
    IF ~f3.ok THEN ParseFailure(3) ELSE
    LET f4 == parseInt(parts[4]) IN
    IF ~f4.ok THEN ParseFailure(4) ELSE
    LET f5 == parseInt(parts[5]) IN
    IF ~f5.ok THEN ParseFailure(5) ELSE
    LET f6 == parseInt(parts[6]) IN
    IF ~f6.ok THEN ParseFailure(6) ELSE
    LET f7 == parseInt(parts[7]) IN
    IF ~f7.ok THEN ParseFailure(7) ELSE
    [stats |-> PtrTo(ServerStats(f1.val, f2.val, f3.val, f4.val, f5.val,
                                 f6.val, f7.val)),
     err |-> NilErr, tried |-> 7]

\* A server answer: whether client.Get returned one, its status, whether
\* io.ReadAll could read its body, and the body.
Response(transportOk, status, readOk, body) ==
    [transportOk |-> transportOk, status |-> status, readOk |-> readOk,
     body |-> body]

fetchAndParseStats(r) ==
    IF ~r.transportOk THEN Failure(Err("get", 0, ""), 0)
    ELSE IF r.status # StatusOK THEN Failure(Err("status", r.status, ""), 0)
    ELSE IF ~r.readOk THEN Failure(Err("read", 0, ""), 0)
    ELSE LET dataStr == TrimSpace(r.body)
             parts == Split(dataStr)
         IN  IF Len(parts) # NumParts
             THEN Failure(Err("format", Len(parts), ""), 0)
             ELSE ParseParts(parts)

-----------------------------------------------------------------------------
(* checkMetrics, main.go:121-150.                                           *)

\* x > k for a float64 x and an integer constant k >= 0.
FloatGt(x, k) ==
    CASE x.cls = "nan" -> FALSE
      [] x.cls = "inf" -> ~x.neg
      [] OTHER -> ~x.neg /\ x.num > k * x.den

\* Variant of RatioGt that compares with >=.
RatioGe(used, total, pct) ==
    IF total = 0 THEN used > 0
    ELSE IF total > 0 THEN 100 * used >= pct * total
    ELSE 100 * used <= pct * total

\* float64(used) / float64(total) > pct / 100.  A float64 division by zero
\* is no error: it gives +Inf, -Inf or NaN, by the sign of the dividend.
RatioGt(used, total, pct) ==
    IF total = 0 THEN used > 0
    ELSE IF total > 0 THEN 100 * used > pct * total
    ELSE 100 * used < pct * total

\* Go's integer division, which truncates toward zero; b > 0.
TruncDiv(a, b) == IF a >= 0 THEN a \div b ELSE 0 - ((0 - a) \div b)

\* An output line: the rule that wrote it and the value it reports, before
\* formatting: the load average, or the fraction num / den.
Line(rule, load, num, den) == [rule |-> rule, load |-> load, num |-> num, den |-> den]

LoadLine(st) ==
    IF FloatGt(st.LoadAvg, loadAvgThreshold)
    THEN <<Line("load", st.LoadAvg, 0, 1)>> ELSE <<>>

\* Variant of MemLine without the guard on the total.
MemLineUnguarded(st) ==
    IF RatioGt(st.UsedMem, st.TotalMem, memUsageThreshold)
    THEN <<Line("mem", NaN, 100 * st.UsedMem, st.TotalMem)>> ELSE <<>>

MemLine(st) ==
    IF st.TotalMem > 0 /\ RatioGt(st.UsedMem, st.TotalMem, memUsageThreshold)
    THEN <<Line("mem", NaN, 100 * st.UsedMem, st.TotalMem)>> ELSE <<>>

DiskLine(st) ==
    IF st.TotalDisk > 0 /\ RatioGt(st.UsedDisk, st.TotalDisk, diskUsageThreshold)
    THEN <<Line("disk", NaN, TruncDiv(st.TotalDisk - st.UsedDisk, MiB), 1)>>
    ELSE <<>>

NetLine(st) ==
    IF st.TotalNet > 0 /\ RatioGt(st.UsedNet, st.TotalNet, netUsageThreshold)
    THEN <<Line("net", NaN, (st.TotalNet - st.UsedNet) * 8, 1000000)>>
    ELSE <<>>

\* The lines checkMetrics prints, in order.
checkMetrics(st) == LoadLine(st) \o MemLine(st) \o DiskLine(st) \o NetLine(st)


-----------------------------------------------------------------------------
(* What the server can answer.                                              *)

Tok5p0 == <<"5", ".", "0">>
Tok35p5 == <<"3", "5", ".", "5">>
Tok1000 == <<"1", "0", "0", "0">>
Tok100 == <<"1", "0", "0">>
Tok850 == <<"8", "5", "0">>
Tok800 == <<"8", "0", "0">>
Tok950 == <<"9", "5", "0">>
Tok0 == <<"0">>
TokNeg100 == <<"-", "1", "0", "0">>
TokNeg1p5 == <<"-", "1", ".", "5">>
TokAbc == <<"a", "b", "c">>
TokNaN == <<"N", "a", "N">>
TokInf == <<"+", "I", "n", "f">>
TokPadded7 == <<" ", "7", "\n">>
Tok1p5 == <<"1", ".", "5">>
TokNeg2 == <<"\t", "-", "2">>
TokA == <<"a">>

\* The bodies the poll loop is run against: the scenarios of the design, a
\* record breaking every rule, zero and negative quantities, special load
\* averages, and bodies of each malformed kind.
MainFieldLists ==
    { <<Tok5p0, Tok1000, Tok100, Tok1000, Tok100, Tok1000, Tok100>>,
      <<Tok35p5, Tok1000, Tok100, Tok1000, Tok100, Tok1000, Tok100>>,
      <<Tok5p0, Tok1000, Tok850, Tok1000, Tok100, Tok1000, Tok100>>,
      <<Tok5p0, Tok1000, Tok800, Tok1000, Tok950, Tok1000, Tok100>>,
      <<Tok35p5, Tok1000, Tok850, Tok1000, Tok950, Tok1000, Tok950>>,
      <<Tok5p0, Tok0, Tok850, Tok0, Tok950, Tok0, Tok950>>,
      <<Tok5p0, Tok1000, TokNeg100, Tok1000, Tok100, Tok1000, Tok100>>,
      <<TokNeg1p5, Tok1000, Tok100, Tok1000, Tok100, Tok1000, Tok100>>,
      <<TokNaN, Tok1000, Tok100, Tok1000, Tok100, Tok1000, Tok100>>,
      <<TokInf, Tok1000, Tok100, Tok1000, Tok100, Tok1000, Tok100>>,
      <<TokPadded7, TokPadded7, TokNeg2, TokPadded7, TokPadded7, TokPadded7, TokPadded7>>,
      <<Tok5p0, Tok1000, TokAbc, Tok1000, Tok100, Tok1000, TokAbc>>,
      <<Tok5p0, Tok1p5, Tok100, Tok1000, Tok100, Tok1000, Tok100>>,
      <<Tok5p0, Tok1000>>,
      <<Tok5p0, Tok1000, Tok100, Tok1000, Tok100, Tok1000, Tok100, Tok100>>,
      <<<<>>>> }

\* A 200 answer whose body is the fields joined by commas.
Http200(fs) == [resp |-> Response(TRUE, StatusOK, TRUE, Join(fs)), fields |-> fs]

MainResponses ==
    { [resp |-> Response(FALSE, 0, FALSE, <<>>), fields |-> <<>>],
      [resp |-> Response(TRUE, 404, TRUE, <<>>), fields |-> <<>>],
      [resp |-> Response(TRUE, 500, TRUE, Join(<<Tok5p0, Tok1000>>)), fields |-> <<>>],
      [resp |-> Response(TRUE, StatusOK, FALSE, <<>>), fields |-> <<>>] }
      \cup {Http200(fs) : fs \in MainFieldLists}

\* What fetchAndParseStats returns for each of them.
MainResults == [r \in MainResponses |-> fetchAndParseStats(r.resp)]

\* The bodies fetchAndParseStats alone is run against: every list of 6, 7 or
\* 8 fields, each padded, fractional, negative or not a number.
ParseTokens == {TokPadded7, Tok1p5, TokNeg2, TokA}
FieldCounts == {NumParts - 1, NumParts, NumParts + 1}
ParseFieldLists == UNION {[1..n -> ParseTokens] : n \in FieldCounts}

\* The records checkMetrics alone is run against.
CheckLoads ==
    { Fin(FALSE, 5, 1), Fin(FALSE, 30, 1), Fin(FALSE, 301, 10),
      Fin(FALSE, 355, 10), Fin(TRUE, 15, 10), Inf(FALSE), Inf(TRUE), NaN }
CheckTotals == {-MaxTotal, 0, MaxTotal}
CheckUseds == {-1, 0} \cup ((MaxTotal - 3)..(MaxTotal + 1))
CheckRecords ==
    { ServerStats(l, tm, um, td, ud, tn, un) :
        l \in CheckLoads,
        tm \in CheckTotals, um \in CheckUseds,
        td \in CheckTotals, ud \in CheckUseds,
        tn \in CheckTotals, un \in CheckUseds }

-----------------------------------------------------------------------------
(* main, main.go:37-62.                                                     *)

NoResponse == Response(FALSE, 0, FALSE, <<>>)
NoResult == [stats |-> NilStats, err |-> NilErr, tried |-> 0]

NoticeLine == Line("unavailable", NaN, 0, 1)

\* The line main.go:50 writes.
Diagnostic(attempt, e) == [attempt |-> attempt, err |-> e]

Count(seq, x) == Cardinality({i \in 1..Len(seq) : seq[i] = x})

\* What is kept of a finished cycle.
Summary ==
    [failed |-> ~res.err.nil,
     notices |-> Count(stdout, NoticeLine),
     diags |-> Len(stderr),
     attempt |-> IF stderr = <<>> THEN 0 ELSE stderr[Len(stderr)].attempt]

Push(h, x) ==
    IF Len(h) < HistWindow THEN Append(h, x) ELSE Append(Tail(h), x)

Init ==
    /\ pc = "fetch"
    /\ consecutiveErrors = 0
    /\ resp = NoResponse
    /\ res = NoResult
    /\ stdout = <<>>
    /\ stderr = <<>>
    /\ checkedAt = -1
    /\ sleepFor = 0
    /\ fields = <<>>
    /\ hist = <<>>
    /\ dropped = FALSE

\* main.go:47.  The environment answers; it stops failing after MaxErrors
\* consecutive failures.
Fetch ==
    /\ pc = "fetch"
    /\ \E r \in MainResponses :
         LET out == MainResults[r]
         IN  /\ out.err.nil \/ consecutiveErrors < MaxErrors
             /\ resp' = r.resp
             /\ fields' = r.fields
             /\ res' = out
    /\ stdout' = <<>>
    /\ stderr' = <<>>
    /\ checkedAt' = -1
    /\ pc' = "handle"
    /\ UNCHANGED <<consecutiveErrors, sleepFor, hist, dropped>>

\* Variant of OnError that writes the notice at the threshold only.
OnErrorEdgeTriggered ==
    /\ pc = "handle"
    /\ ~res.err.nil
    /\ stderr' = Append(stderr, Diagnostic(consecutiveErrors + 1, res.err))
    /\ consecutiveErrors' = consecutiveErrors + 1
    /\ stdout' = IF consecutiveErrors' = maxConsecutiveErrors
                 THEN Append(stdout, NoticeLine)
                 ELSE stdout
    /\ pc' = "sleep"
    /\ UNCHANGED <<resp, res, checkedAt, sleepFor, fields, hist, dropped>>

\* Variant of OnError that gives up at the threshold.
OnErrorFatal ==
    /\ pc = "handle"
    /\ ~res.err.nil
    /\ stderr' = Append(stderr, Diagnostic(consecutiveErrors + 1, res.err))
    /\ consecutiveErrors' = consecutiveErrors + 1
    /\ stdout' = IF consecutiveErrors' >= maxConsecutiveErrors
                 THEN Append(stdout, NoticeLine)
                 ELSE stdout
    /\ pc' = IF consecutiveErrors' >= maxConsecutiveErrors THEN "exit" ELSE "sleep"
    /\ UNCHANGED <<resp, res, checkedAt, sleepFor, fields, hist, dropped>>

\* Variant of OnError that numbers the attempts from 0.
OnErrorNumbersFromZero ==
    /\ pc = "handle"
    /\ ~res.err.nil
    /\ stderr' = Append(stderr, Diagnostic(consecutiveErrors, res.err))
    /\ consecutiveErrors' = consecutiveErrors + 1
    /\ stdout' = IF consecutiveErrors' >= maxConsecutiveErrors
                 THEN Append(stdout, NoticeLine)
                 ELSE stdout
    /\ pc' = "sleep"
    /\ UNCHANGED <<resp, res, checkedAt, sleepFor, fields, hist, dropped>>

\* main.go:49-54.
OnError ==
    /\ pc = "handle"
    /\ ~res.err.nil
    /\ stderr' = Append(stderr, Diagnostic(consecutiveErrors + 1, res.err))
    /\ consecutiveErrors' = consecutiveErrors + 1
    /\ stdout' = IF consecutiveErrors' >= maxConsecutiveErrors
                 THEN Append(stdout, NoticeLine)
                 ELSE stdout
    /\ pc' = "sleep"
    /\ UNCHANGED <<resp, res, checkedAt, sleepFor, fields, hist, dropped>>

\* Variant of OnSuccess that leaves the counter as it is.
OnSuccessNoReset ==
    /\ pc = "handle"
    /\ res.err.nil
    /\ checkedAt' = 0
    /\ stdout' = stdout \o checkMetrics(res.stats.v)
    /\ pc' = "sleep"
    /\ UNCHANGED <<consecutiveErrors, resp, res, stderr, sleepFor, fields, hist,
                   dropped>>

\* Variant of OnSuccess that calls checkMetrics before it resets the counter.
OnSuccessCheckFirst ==
    /\ pc = "handle"
    /\ res.err.nil
    /\ checkedAt' = consecutiveErrors
    /\ stdout' = stdout \o checkMetrics(res.stats.v)
    /\ consecutiveErrors' = 0
    /\ pc' = "sleep"
    /\ UNCHANGED <<resp, res, stderr, sleepFor, fields, hist, dropped>>

\* main.go:55-58.
OnSuccess ==
    /\ pc = "handle"
    /\ res.err.nil
    /\ consecutiveErrors' = 0
    /\ checkedAt' = consecutiveErrors'
    /\ stdout' = stdout \o checkMetrics(res.stats.v)
    /\ pc' = "sleep"
    /\ UNCHANGED <<resp, res, stderr, sleepFor, fields, hist, dropped>>

\* main.go:60-61.
Sleep ==
    /\ pc = "sleep"
    /\ sleepFor' = pollInterval
    /\ hist' = Push(hist, Summary)
    /\ dropped' = (dropped \/ Len(hist) = HistWindow)
    /\ pc' = "fetch"
    /\ UNCHANGED <<consecutiveErrors, resp, res, stdout, stderr, checkedAt, fields>>

Next == Fetch \/ OnError \/ OnSuccess \/ Sleep

Spec == Init /\ [][Next]_vars

\* The loop is one sequential thread: client.Get is bounded by the client's
\* timeout and time.Sleep returns, so a step that can be taken is taken.
FairSpec == Spec /\ WF_vars(Next)

-----------------------------------------------------------------------------
(* fetchAndParseStats alone, on a 200 answer whose body was read.           *)

InitParse ==
    /\ pc = "parse"
    /\ \E fs \in ParseFieldLists :
         /\ resp = Http200(fs).resp
         /\ fields = fs
    /\ consecutiveErrors = 0
    /\ res = NoResult
    /\ stdout = <<>>
    /\ stderr = <<>>
    /\ checkedAt = -1
    /\ sleepFor = 0
    /\ hist = <<>>
    /\ dropped = FALSE

ParseStep ==
    /\ pc = "parse"
    /\ res' = fetchAndParseStats(resp)
    /\ pc' = "parsed"
    /\ UNCHANGED <<consecutiveErrors, resp, stdout, stderr, checkedAt, sleepFor,
                   fields, hist, dropped>>

NextParse == ParseStep

SpecParse == InitParse /\ [][NextParse]_vars

-----------------------------------------------------------------------------
(* checkMetrics alone.                                                      *)

InitCheck ==
    /\ pc = "check"
    /\ \E st \in CheckRecords :
         res = [stats |-> PtrTo(st), err |-> NilErr, tried |-> NumParts]
    /\ resp = NoResponse
    /\ fields = <<>>
    /\ consecutiveErrors = 0
    /\ stdout = <<>>
    /\ stderr = <<>>
    /\ checkedAt = -1
    /\ sleepFor = 0
    /\ hist = <<>>
    /\ dropped = FALSE

CheckStep ==
    /\ pc = "check"
    /\ stdout' = stdout \o checkMetrics(res.stats.v)
    /\ checkedAt' = consecutiveErrors
    /\ pc' = "checked"
    /\ UNCHANGED <<consecutiveErrors, resp, res, stderr, sleepFor, fields, hist,
                   dropped>>

NextCheck == CheckStep

SpecCheck == InitCheck /\ [][NextCheck]_vars


-----------------------------------------------------------------------------
(* Properties of the poll loop.                                             *)

\* The number of failed cycles at the end of h.
RECURSIVE TrailingFailures(_)
TrailingFailures(h) ==
    IF h = <<>> \/ ~h[Len(h)].failed THEN 0
    ELSE 1 + TrailingFailures(SubSeq(h, 1, Len(h) - 1))

\* The position of cycle i of h in its run of consecutive failures.
RunEndingAt(h, i) == TrailingFailures(SubSeq(h, 1, i))

Failed == ~res.err.nil

\* The position of the current cycle, when it failed, in its run of failures.
FailureRun == TrailingFailures(hist) + 1

Warnings == Len(stdout) - Count(stdout, NoticeLine)

\* C1: the failure counter equals the number of failed polls since the most
\* recent successful poll, or since the start when none has succeeded: before
\* a cycle is handled it counts the finished cycles, after it is handled it
\* counts the current one too.
C1_CounterIsFailureRun ==
    /\ pc \in {"fetch", "handle"} => consecutiveErrors = TrailingFailures(hist)
    /\ pc = "sleep" =>
         consecutiveErrors = (IF Failed THEN FailureRun ELSE 0)

C1_Witness ==
    /\ pc = "fetch"
    /\ consecutiveErrors = 2
    /\ Len(hist) >= 4
    /\ ~hist[Len(hist) - 2].failed
    /\ hist[Len(hist) - 3].failed

\* C2: a cycle writes the "stats unavailable" notice, once, iff its fetch
\* failed and it is at least the 3rd consecutive failure; so from a fresh
\* start a failed cycle carries the notice iff it is the 3rd or a later one
\* of its run (none after the 1st or 2nd, one after the 3rd, and again in
\* every further failing cycle).
C2_NoticeIffThirdFailure ==
    /\ pc = "sleep" =>
         Count(stdout, NoticeLine) = (IF Failed /\ FailureRun >= 3 THEN 1 ELSE 0)
    /\ (pc = "fetch" /\ ~dropped) =>
         \A i \in 1..Len(hist) :
            hist[i].notices =
               (IF hist[i].failed /\ RunEndingAt(hist, i) >= 3 THEN 1 ELSE 0)

C2_Witness ==
    /\ pc = "fetch"
    /\ ~dropped
    /\ Len(hist) = 4
    /\ \A i \in 1..4 : hist[i].failed
    /\ hist[3].notices = 1
    /\ hist[4].notices = 1

\* C3: no error is fatal: whatever the outcome of the fetch and however many
\* failures came before, the cycle is handled, the loop sleeps the fixed
\* interval and polls again.
C3_LoopNeverStops ==
    /\ (pc = "handle") ~> (pc = "sleep")
    /\ (pc = "sleep") ~> (pc = "fetch" /\ sleepFor = pollInterval)
    /\ (pc = "fetch") ~> (pc = "handle")

C3_Witness ==
    /\ pc = "handle"
    /\ Failed
    /\ consecutiveErrors > maxConsecutiveErrors
    /\ sleepFor = pollInterval

\* C8: a failed poll writes exactly one diagnostic line and a successful one
\* none; the attempt number of the line is the position of the failure in
\* the current run of consecutive failures, which is the counter after the
\* cycle's increment.
C8_OneDiagnosticPerFailure ==
    pc = "sleep" =>
      IF Failed
      THEN /\ stderr = <<Diagnostic(FailureRun, res.err)>>
           /\ stderr[1].attempt = consecutiveErrors
      ELSE stderr = <<>>

C8_Witness ==
    /\ pc = "sleep"
    /\ Failed
    /\ stderr # <<>>
    /\ stderr[1].attempt = 2
    /\ Len(hist) >= 2
    /\ ~hist[Len(hist) - 1].failed

\* C10: a cycle whose fetch failed does not call checkMetrics and writes no
\* threshold warning; a cycle whose fetch succeeded writes no diagnostic and
\* no notice and calls checkMetrics with the counter already reset to 0; no
\* cycle writes both a warning and a diagnostic or notice.
C10_OutputsExclusive ==
    /\ checkedAt \in {-1, 0}
    /\ (pc \in {"handle", "sleep"} /\ Failed) =>
         /\ checkedAt = -1
         /\ Warnings = 0
    /\ (pc = "sleep" /\ ~Failed) =>
         /\ stderr = <<>>
         /\ Count(stdout, NoticeLine) = 0
         /\ checkedAt = 0
    /\ ~(Warnings > 0 /\ (stderr # <<>> \/ Count(stdout, NoticeLine) > 0))

C10_Witness ==
    /\ pc = "sleep"
    /\ ~Failed
    /\ Warnings = 4
    /\ hist # <<>>
    /\ hist[Len(hist)].failed
    /\ hist[Len(hist)].notices = 1


-----------------------------------------------------------------------------
(* Properties of fetchAndParseStats.                                        *)

\* What each field of ParseTokens denotes, read off its text: " 7\n" is 7,
\* "1.5" is one and a half and no integer, "\t-2" is minus two, "a" is no
\* number.
ExpectedInt(tok) ==
    CASE tok = TokPadded7 -> [ok |-> TRUE, val |-> 7]
      [] tok = TokNeg2 -> [ok |-> TRUE, val |-> -2]
      [] OTHER -> [ok |-> FALSE, val |-> 0]

ExpectedFloat(tok) ==
    CASE tok = TokPadded7 -> [ok |-> TRUE, val |-> Fin(FALSE, 7, 1)]
      [] tok = Tok1p5 -> [ok |-> TRUE, val |-> Fin(FALSE, 15, 10)]
      [] tok = TokNeg2 -> [ok |-> TRUE, val |-> Fin(TRUE, 2, 1)]
      [] OTHER -> [ok |-> FALSE, val |-> NaN]

\* Whether field i of fs is a number of the type its position expects.
FieldValid(fs, i) ==
    IF i = 1 THEN ExpectedFloat(fs[i]).ok ELSE ExpectedInt(fs[i]).ok

InvalidFields(fs) == {i \in 1..Len(fs) : ~FieldValid(fs, i)}

WellFormed(fs) == Len(fs) = 7 /\ InvalidFields(fs) = {}

ExpectedStats(fs) ==
    ServerStats(ExpectedFloat(fs[1]).val, ExpectedInt(fs[2]).val,
                ExpectedInt(fs[3]).val, ExpectedInt(fs[4]).val,
                ExpectedInt(fs[5]).val, ExpectedInt(fs[6]).val,
                ExpectedInt(fs[7]).val)

\* C4: for a 200 answer whose body was read, fetchAndParseStats returns a
\* record iff the body has exactly 7 comma-separated fields, each a number
\* of its expected type once its whitespace is trimmed; the record then
\* holds the 7 values in order; otherwise it returns an error and no record,
\* the format error (with the count) when the fields are not 7.
C4_AllOrNothing ==
    pc = "parsed" =>
      /\ res.stats.nil <=> ~res.err.nil
      /\ ~res.stats.nil <=> WellFormed(fields)
      /\ WellFormed(fields) => res.stats.v = ExpectedStats(fields)
      /\ res.stats.nil => res.stats.v = ZeroStats
      /\ Len(fields) # 7 => res.err = Err("format", Len(fields), "")
      /\ (Len(fields) = 7 /\ ~WellFormed(fields)) => res.err.kind = "parse"

C4_Witness ==
    /\ pc = "parsed"
    /\ ~res.stats.nil
    /\ fields[1] = Tok1p5
    /\ fields[2] = TokPadded7
    /\ fields[7] = TokNeg2
    /\ res.stats.v.LoadAvg = Fin(FALSE, 15, 10)
    /\ res.stats.v.UsedNet = -2

\* C5: when some of the 7 fields are not numbers of their expected type,
\* the error names the invalid field of lowest position, the conversions
\* stopped at that field, and no record is returned.
C5_FailFast ==
    (pc = "parsed" /\ Len(fields) = 7 /\ InvalidFields(fields) # {}) =>
      LET first == CHOOSE i \in InvalidFields(fields) :
                      \A j \in InvalidFields(fields) : i <= j
      IN  /\ res.err = Err("parse", 0, FieldNames[first])
          /\ res.tried = first
          /\ res.stats.nil

C5_Witness ==
    /\ pc = "parsed"
    /\ Len(fields) = 7
    /\ InvalidFields(fields) = {3, 6}
    /\ res.err.field = "Used Memory"
    /\ res.tried = 3

-----------------------------------------------------------------------------
(* Properties of checkMetrics.                                              *)

HasLine(rule) == \E i \in 1..Len(stdout) : stdout[i].rule = rule

Checked == res.stats.v

\* C6: a ratio rule whose total is zero writes no warning, whatever the
\* used value and the other fields are.
C6_ZeroTotalNeverWarns ==
    pc = "checked" =>
      /\ Checked.TotalMem = 0 => ~HasLine("mem")
      /\ Checked.TotalDisk = 0 => ~HasLine("disk")
      /\ Checked.TotalNet = 0 => ~HasLine("net")

C6_Witness ==
    /\ pc = "checked"
    /\ Checked.TotalMem = 0 /\ Checked.UsedMem > 0
    /\ Checked.TotalDisk = 0 /\ Checked.UsedDisk > 0
    /\ Checked.TotalNet = 0 /\ Checked.UsedNet > 0
    /\ HasLine("load")
    /\ Len(stdout) = 1

\* x > 30 for a load average x.
LoadAbove30(x) ==
    \/ x.cls = "inf" /\ ~x.neg
    \/ x.cls = "fin" /\ ~x.neg /\ x.num > 30 * x.den

\* The lines the four rules call for.
Emitted ==
    /\ HasLine("load") <=> LoadAbove30(Checked.LoadAvg)
    /\ HasLine("mem") <=>
         (Checked.TotalMem > 0 /\ 5 * Checked.UsedMem > 4 * Checked.TotalMem)
    /\ HasLine("disk") <=>
         (Checked.TotalDisk > 0 /\ 10 * Checked.UsedDisk > 9 * Checked.TotalDisk)
    /\ HasLine("net") <=>
         (Checked.TotalNet > 0 /\ 10 * Checked.UsedNet > 9 * Checked.TotalNet)
    /\ \A i, j \in 1..Len(stdout) : stdout[i].rule = stdout[j].rule => i = j
    /\ \A i \in 1..Len(stdout) : stdout[i].rule \in {"load", "mem", "disk", "net"}

\* C7: checkMetrics writes the load line iff loadAverage > 30, the memory
\* line iff totalMemory > 0 and used/total > 0.80, the disk and the network
\* line iff their total > 0 and used/total > 0.90, each comparison strict
\* and each rule whatever the others do; it writes nothing else and leaves
\* the record as it was.
C7_FourIndependentRules ==
    [][pc = "check" => (res' = res /\ Emitted')]_vars

C7_Witness ==
    /\ pc = "checked"
    /\ Checked.TotalMem > 0 /\ 5 * Checked.UsedMem = 4 * Checked.TotalMem
    /\ Checked.TotalDisk > 0 /\ 10 * Checked.UsedDisk = 9 * Checked.TotalDisk
    /\ Checked.TotalNet > 0 /\ 10 * Checked.UsedNet > 9 * Checked.TotalNet
    /\ Checked.LoadAvg = Fin(FALSE, 30, 1)
    /\ ~HasLine("load") /\ ~HasLine("mem") /\ ~HasLine("disk") /\ HasLine("net")

-----------------------------------------------------------------------------
(* The data model against the records the loop hands to checkMetrics.       *)

NonNegativeFloat(x) ==
    \/ x.cls = "inf" /\ ~x.neg
    \/ x.cls = "fin" /\ (~x.neg \/ x.num = 0)

NonNegative(st) ==
    /\ NonNegativeFloat(st.LoadAvg)
    /\ st.TotalMem >= 0 /\ st.UsedMem >= 0
    /\ st.TotalDisk >= 0 /\ st.UsedDisk >= 0
    /\ st.TotalNet >= 0 /\ st.UsedNet >= 0

\* C9: every record fetchAndParseStats returns, and so every record that
\* reaches checkMetrics, has a non-negative load average and non-negative
\* totals and used values.
C9_RecordsNonNegative ==
    (~res.stats.nil \/ checkedAt # -1) => NonNegative(res.stats.v)

=============================================================================
